---- MODULE Spec2Model ----
(***************************************************************************)
(* A model of excel-sort/backend/app.py: the ExcelSorter class (extraction *)
(* of column A / column D and the exact-match, pool-consuming matcher) and *)
(* the /api/sort-excel request handler that drives it and stores the       *)
(* summary in the process-wide process_result slot.                        *)
(*                                                                         *)
(* Text is a sequence of one-character strings, so that str.strip() and    *)
(* string equality are computed, not assumed.  A cell of the DataFrame is  *)
(* either missing (pandas NaN) or a text.                                  *)
(***************************************************************************)
EXTENDS Integers, Sequences, FiniteSets, TLC

\* ------------------------------------------------------------------ bounds
\* Largest number of data rows of a DataFrame.
MaxRows == 2
\* Number of requests in flight at the service.
NumRequests == 2

Requests == 1..NumRequests

\* ------------------------------------------------------------------- text
Whitespace == {" "}

RECURSIVE lstrip(_)
lstrip(s) ==
    IF s = <<>> THEN <<>>
    ELSE IF Head(s) \in Whitespace THEN lstrip(Tail(s)) ELSE s

RECURSIVE rstrip(_)
rstrip(s) ==
    IF s = <<>> THEN <<>>
    ELSE IF s[Len(s)] \in Whitespace THEN rstrip(SubSeq(s, 1, Len(s) - 1)) ELSE s

\* str.strip(): leading and trailing whitespace removed.
Strip(s) == rstrip(lstrip(s))

LowerChar(c) == IF c = "A" THEN "a" ELSE IF c = "N" THEN "n" ELSE c

\* str.lower()
Lower(s) == [k \in 1..Len(s) |-> LowerChar(s[k])]

Range(s) == {s[k] : k \in 1..Len(s)}

\* ------------------------------------------------------------------ cells
NaN == [t |-> "nan", s |-> <<>>]
Text(s) == [t |-> "str", s |-> s]

\* pd.notna(val)
notna(val) == val.t # "nan"

\* str(val) of a cell that holds text
str(val) == val.s

\* The cell values a workbook may hold in the model: a missing cell, a blank
\* text, the literal text nan, texts that differ by padding or by case, and
\* a text with a blank inside.
Cells ==
    { NaN,
      Text(<<" ">>),
      Text(<<"n", "a", "n">>),
      Text(<<"A">>),
      Text(<<" ", "A", " ">>),
      Text(<<"a">>),
      Text(<<" ", "b", " ", "b">>) }

\* The column counts that the code tells apart: no column, fewer than 4, 4.
ColumnCounts == {0, 3, 4}

Column(n) == [1..n -> Cells]

\* A DataFrame: its number of columns, column A (iloc[:, 0]) and column D
\* (iloc[:, 3]) over its rows; a column that does not exist is the empty
\* sequence.
Table(ncols, rows, a, d) ==
    [ncols |-> ncols,
     A |-> IF ncols > 0 THEN [k \in 1..rows |-> a[k]] ELSE <<>>,
     D |-> IF ncols > 3 THEN [k \in 1..rows |-> d[k]] ELSE <<>>]

\* DataFrame.empty: some axis has length 0.
df_empty(df) == df.ncols = 0 \/ Len(df.A) = 0

NoTable == [ncols |-> 0, A |-> <<>>, D |-> <<>>]

\* ------------------------------------------------------------- extraction
nan_text == <<"n", "a", "n">>

\* The filter of both column loops:
\* pd.notna(val) and str(val).strip() and str(val).strip() != 'nan'
keeps(val) ==
    /\ notna(val)
    /\ Strip(str(val)) # <<>>
    /\ Strip(str(val)) # nan_text

\* The column A loop: every kept value is appended, trimmed.
RECURSIVE modules_loop(_, _)
modules_loop(col, modules_acc) ==
    IF col = <<>> THEN modules_acc
    ELSE modules_loop(Tail(col),
                      IF keeps(Head(col))
                      THEN Append(modules_acc, Strip(str(Head(col))))
                      ELSE modules_acc)

\* The column D loop: a kept value is appended only when requirements_set
\* does not hold it yet.
RECURSIVE requirements_loop(_, _, _)
requirements_loop(col, requirements_set, requirements_acc) ==
    IF col = <<>> THEN requirements_acc
    ELSE LET val == Head(col)
             clean_req == Strip(str(val))
         IN  IF keeps(val) /\ clean_req \notin requirements_set
             THEN requirements_loop(Tail(col), requirements_set \cup {clean_req},
                                    Append(requirements_acc, clean_req))
             ELSE requirements_loop(Tail(col), requirements_set, requirements_acc)

ExtractModules(df) ==
    IF df.ncols > 0 THEN modules_loop(df.A, <<>>) ELSE <<>>

\* Column D extracted like column A, repeated values kept.
ExtractRequirementsNoDedup(df) ==
    IF df.ncols > 3 THEN modules_loop(df.D, <<>>) ELSE <<>>

ExtractRequirements(df) ==
    IF df.ncols > 3 THEN requirements_loop(df.D, {}, <<>>) ELSE <<>>

\* ---------------------------------------------------------------- matcher
MATCHED == "matched"
UNMATCHED == "unmatched"

\* The scan of find_exact_match from position k on: the first position whose
\* trimmed entry equals cleaned_module, 0 when there is none.
RECURSIVE scan(_, _, _)
scan(cleaned_module, requirements_list, k) ==
    IF k > Len(requirements_list) THEN 0
    ELSE IF cleaned_module = Strip(requirements_list[k]) THEN k
    ELSE scan(cleaned_module, requirements_list, k + 1)

\* find_exact_match comparing without regard to case.
find_exact_match_lower(module_value, requirements_list) ==
    LET lowered == [k \in 1..Len(requirements_list) |->
                       Lower(Strip(requirements_list[k]))]
        i == scan(Lower(Strip(module_value)), lowered, 1)
    IN  IF i # 0
        THEN [match_index |-> i,
              matched_requirement |-> Strip(requirements_list[i]),
              match_type |-> "exact_match"]
        ELSE [match_index |-> 0,
              matched_requirement |-> <<>>,
              match_type |-> "no_match"]

\* find_exact_match: (index, cleaned requirement, match type); positions are
\* counted from 1 and match_index 0 stands for None.
find_exact_match(module_value, requirements_list) ==
    LET i == scan(Strip(module_value), requirements_list, 1)
    IN  IF i # 0
        THEN [match_index |-> i,
              matched_requirement |-> Strip(requirements_list[i]),
              match_type |-> "exact_match"]
        ELSE [match_index |-> 0,
              matched_requirement |-> <<>>,
              match_type |-> "no_match"]

\* list.pop(): the last entry goes, whatever the index.
PopLast(list, i) == SubSeq(list, 1, Len(list) - 1)

\* The matched entry stays in the list.
PopNothing(list, i) == list

\* list.pop(match_index)
Pop(list, i) == SubSeq(list, 1, i - 1) \o SubSeq(list, i + 1, Len(list))

\* The record appended for a module that found its requirement.
MatchedRecord(cleaned_module, matched_requirement) ==
    [module_value |-> cleaned_module,
     matched_requirement |-> matched_requirement,
     match_status |-> MATCHED,
     match_method |-> "exact"]

\* An unmatched record that loses the module's text.
UnmatchedRecordBlank(cleaned_module) ==
    [module_value |-> <<>>,
     matched_requirement |-> <<>>,
     match_status |-> UNMATCHED,
     match_method |-> "none"]

\* The record appended for a module that found none.
UnmatchedRecord(cleaned_module) ==
    [module_value |-> cleaned_module,
     matched_requirement |-> <<>>,
     match_status |-> UNMATCHED,
     match_method |-> "none"]

\* available_requirements = self.requirements: the pool and self.requirements
\* are one list, so what the pool loses self.requirements loses.
RequirementsAliased(self_requirements, pool) == pool

\* available_requirements = self.requirements.copy(): the pool is a list of
\* its own, so removing from it leaves self.requirements as it was.
RequirementsAfterPop(self_requirements, pool) == self_requirements

\* The matched texts are not taken out.
UnmatchedRequirementsAll(self_requirements, matched_list) ==
    Range(self_requirements)

\* set(self.requirements) - set(matched_requirements_list)
UnmatchedRequirementsSet(self_requirements, matched_list) ==
    Range(self_requirements) \ Range(matched_list)

\* list(a set): the elements in an order the set's hashing decides.
Listings(S) == { l \in [1..Cardinality(S) -> S] : Range(l) = S }

\* [r for r in matched_results if r['match_status'] is the matched mark]
RECURSIVE CountMatched(_)
CountMatched(results) ==
    IF results = <<>> THEN 0
    ELSE (IF Head(results).match_status = MATCHED THEN 1 ELSE 0)
         + CountMatched(Tail(results))

\* ------------------------------------------------------------------ state
VARIABLES
    upload,                      \* per request: the uploaded file
    pc,                          \* per request: the handler's position
    df,                          \* per request: the DataFrame load_excel returned
    modules,                     \* self.modules
    requirements,                \* self.requirements
    unmatched_items,             \* self.unmatched_items
    self_matched_results,        \* self.matched_results
    self_unmatched_modules,      \* self.unmatched_modules
    self_unmatched_requirements, \* self.unmatched_requirements
    matched_results,             \* sort_requirements' local, its return value
    unmatched_modules,           \* sort_requirements' local
    matched_requirements_list,   \* sort_requirements' local
    available_requirements,      \* sort_requirements' local: the pool
    idx,                         \* position of the for loop over self.modules
    response,                    \* per request: the HTTP response
    process_result,              \* the module-level dict: <<>> is {}
    prev                         \* the caller's copy of an earlier run's outcome

attrs == <<modules, requirements, unmatched_items, self_matched_results,
           self_unmatched_modules, self_unmatched_requirements>>
locals == <<matched_results, unmatched_modules, matched_requirements_list,
            available_requirements, idx>>
vars == <<upload, pc, df, attrs, locals, response, process_result, prev>>

\* ---------------------------------------------------------------- uploads
Workbook(table) == [file |-> "ok", readable |-> TRUE, df |-> table]
Rejected(why) == [file |-> why, readable |-> FALSE, df |-> NoTable]
Corrupt == [file |-> "ok", readable |-> FALSE, df |-> NoTable]

tA == Text(<<"A">>)
tPadA == Text(<<" ", "A", " ">>)
ta == Text(<<"a">>)
tnan == Text(<<"n", "a", "n">>)
tBlank == Text(<<" ">>)

\* The uploads the service receives in the model: one file for every way the
\* handler refuses a file, a file pandas cannot read, and workbooks for every
\* branch after loading (no column, no row, fewer than 4 columns, no module,
\* no requirement, and matching runs with repeated and with leftover texts).
Uploads ==
    { Rejected("none"), Rejected("noname"), Rejected("badext"),
      Rejected("empty"), Rejected("toolarge"),
      Corrupt,
      Workbook([ncols |-> 0, A |-> <<>>, D |-> <<>>]),
      Workbook([ncols |-> 4, A |-> <<>>, D |-> <<>>]),
      Workbook([ncols |-> 3, A |-> <<tA>>, D |-> <<>>]),
      Workbook([ncols |-> 4, A |-> <<tnan, NaN>>, D |-> <<tA, ta>>]),
      Workbook([ncols |-> 4, A |-> <<tA>>, D |-> <<tBlank>>]),
      Workbook([ncols |-> 4, A |-> <<tA, tPadA>>, D |-> <<tA, NaN>>]),
      Workbook([ncols |-> 4, A |-> <<ta, tnan>>, D |-> <<tPadA, ta>>]) }

\* ---------------------------------------------------------------- replies
NoResponse == [status |-> 0, error |-> "pending"]
Reply(status, error) == [status |-> status, error |-> error]

ErrNoFile == "no file"
ErrNoName == "no file selected"
ErrFormat == "unsupported file format"
ErrEmptyFile == "file is empty"
ErrTooLarge == "file larger than 50MB"
ErrUnreadable == "processing failed: cannot read the Excel file"
ErrEmptyFrame == "Excel file is empty or malformed"
ErrColumns == "at least 4 columns needed (A: module, D: requirement)"
ErrNoModules == "no valid module data (column A)"
ErrNoRequirements == "no valid requirement data (column D)"
ErrSortFailed == "sorting the requirements failed"

\* load_excel: the DataFrame, or the exception it raises (a file pandas
\* cannot read, or a DataFrame that is empty).
load_excel(file) ==
    IF ~file.readable THEN [raised |-> TRUE, df |-> NoTable]
    ELSE IF df_empty(file.df) THEN [raised |-> TRUE, df |-> NoTable]
    ELSE [raised |-> FALSE, df |-> file.df]

\* One pool at module level, shared by every invocation.
PoolOwnerShared(r) == 1

\* The invocation whose pool an invocation of sort_requirements works on:
\* available_requirements is a local of the call, so it is the call's own.
PoolOwner(r) == r

\* ------------------------------------------------------- ExcelSorter calls
Fresh == [r \in Requests |-> <<>>]

\* sort_requirements, lines 132-137: the locals, and the pool as a copy of
\* self.requirements.
SortStart(r) ==
    /\ pc[r] = "sort"
    /\ matched_results' = [matched_results EXCEPT ![r] = <<>>]
    /\ unmatched_modules' = [unmatched_modules EXCEPT ![r] = <<>>]
    /\ matched_requirements_list' = [matched_requirements_list EXCEPT ![r] = <<>>]
    /\ available_requirements' =
           [available_requirements EXCEPT ![PoolOwner(r)] = requirements[r]]
    /\ idx' = [idx EXCEPT ![r] = 1]
    /\ pc' = [pc EXCEPT ![r] = "loop"]
    /\ UNCHANGED <<upload, df, attrs, response, process_result, prev>>

\* One pass of the for loop, lines 140-173.
SortStep(r) ==
    /\ pc[r] = "loop"
    /\ idx[r] <= Len(modules[r])
    /\ LET cleaned_module == Strip(modules[r][idx[r]])
           pool == available_requirements[PoolOwner(r)]
           m == find_exact_match(cleaned_module, pool)
       IN  IF m.match_type = "exact_match" /\ m.match_index # 0
           THEN /\ matched_results' =
                       [matched_results EXCEPT ![r] =
                           Append(@, MatchedRecord(cleaned_module, m.matched_requirement))]
                /\ matched_requirements_list' =
                       [matched_requirements_list EXCEPT ![r] =
                           Append(@, m.matched_requirement)]
                /\ available_requirements' =
                       [available_requirements EXCEPT ![PoolOwner(r)] =
                           Pop(pool, m.match_index)]
                /\ requirements' =
                       [requirements EXCEPT ![r] =
                           RequirementsAfterPop(@, Pop(pool, m.match_index))]
                /\ UNCHANGED unmatched_modules
           ELSE /\ matched_results' =
                       [matched_results EXCEPT ![r] =
                           Append(@, UnmatchedRecord(cleaned_module))]
                /\ unmatched_modules' =
                       [unmatched_modules EXCEPT ![r] = Append(@, cleaned_module)]
                /\ UNCHANGED <<matched_requirements_list, available_requirements,
                               requirements>>
    /\ idx' = [idx EXCEPT ![r] = @ + 1]
    /\ UNCHANGED <<upload, pc, df, modules, unmatched_items, self_matched_results,
                   self_unmatched_modules, self_unmatched_requirements,
                   response, process_result, prev>>

NoMatchReason == "no identical text in the requirement column"

\* The reports of sort_requirements, lines 175-200, once the loop is over.
SortFinish(r) ==
    /\ pc[r] = "loop"
    /\ idx[r] > Len(modules[r])
    /\ \E l \in Listings(UnmatchedRequirementsSet(requirements[r],
                                                  matched_requirements_list[r])) :
           self_unmatched_requirements' =
               [self_unmatched_requirements EXCEPT ![r] = l]
    /\ self_matched_results' = [self_matched_results EXCEPT ![r] = matched_results[r]]
    /\ self_unmatched_modules' =
           [self_unmatched_modules EXCEPT ![r] = unmatched_modules[r]]
    /\ unmatched_items' =
           [unmatched_items EXCEPT ![r] =
               [k \in 1..Len(unmatched_modules[r]) |->
                   [module_value |-> unmatched_modules[r][k],
                    reason |-> NoMatchReason]]]
    /\ pc' = [pc EXCEPT ![r] = "sorted"]
    /\ UNCHANGED <<upload, df, modules, requirements, locals, response,
                   process_result, prev>>

\* --------------------------------------------------------- /api/sort-excel
Done(r, status, error) ==
    /\ response' = [response EXCEPT ![r] = Reply(status, error)]
    /\ pc' = [pc EXCEPT ![r] = "done"]

\* Lines 288-307: the checks of the uploaded file.
Validate(r) ==
    /\ pc[r] = "start"
    /\ LET f == upload[r].file
       IN  IF f = "none" THEN Done(r, 400, ErrNoFile)
           ELSE IF f = "noname" THEN Done(r, 400, ErrNoName)
           ELSE IF f = "badext" THEN Done(r, 400, ErrFormat)
           ELSE IF f = "empty" THEN Done(r, 400, ErrEmptyFile)
           ELSE IF f = "toolarge" THEN Done(r, 400, ErrTooLarge)
           ELSE /\ pc' = [pc EXCEPT ![r] = "load"]
                /\ UNCHANGED response
    /\ UNCHANGED <<upload, df, attrs, locals, process_result, prev>>

\* Lines 327-331: a sorter of the request's own, and load_excel; what it
\* raises is caught at line 409 and answered with a 500.
LoadExcel(r) ==
    /\ pc[r] = "load"
    /\ LET loaded == load_excel(upload[r])
       IN  IF loaded.raised
           THEN /\ Done(r, 500, ErrUnreadable)
                /\ UNCHANGED df
           ELSE /\ df' = [df EXCEPT ![r] = loaded.df]
                /\ pc' = [pc EXCEPT ![r] = "extract"]
                /\ UNCHANGED response
    /\ UNCHANGED <<upload, attrs, locals, process_result, prev>>

\* Lines 333-348: the checks of the DataFrame around the extraction.
ExtractAndCheck(r) ==
    /\ pc[r] = "extract"
    /\ IF df_empty(df[r])
       THEN Done(r, 400, ErrEmptyFrame) /\ UNCHANGED <<modules, requirements>>
       ELSE IF df[r].ncols < 4
       THEN Done(r, 400, ErrColumns) /\ UNCHANGED <<modules, requirements>>
       ELSE /\ modules' = [modules EXCEPT ![r] = ExtractModules(df[r])]
            /\ requirements' = [requirements EXCEPT ![r] = ExtractRequirements(df[r])]
            /\ IF modules'[r] = <<>> THEN Done(r, 400, ErrNoModules)
               ELSE IF requirements'[r] = <<>> THEN Done(r, 400, ErrNoRequirements)
               ELSE /\ pc' = [pc EXCEPT ![r] = "sort"]
                    /\ UNCHANGED response
    /\ UNCHANGED <<upload, df, unmatched_items, self_matched_results,
                   self_unmatched_modules, self_unmatched_requirements, locals,
                   process_result, prev>>

\* The dict stored in process_result, lines 367-397.  The dict literal gives
\* the key unmatchedRequirements twice, so the later value, the list, stays.
\* matchRate, a rounded floating-point percentage of the two counts, is not
\* part of the model.
Summary(r) ==
    LET total_requirements == Len(requirements[r])
        matched_requirements == total_requirements - Len(unmatched_items[r])
    IN  [totalRequirements |-> total_requirements,
         matchedRequirements |-> matched_requirements,
         unmatchedRequirements |-> self_unmatched_requirements[r],
         unmatchedModuleCount |-> Len(unmatched_items[r]),
         processedModules |-> Len(modules[r]),
         warnings |-> [k \in 1..Len(unmatched_items[r]) |-> unmatched_items[r][k].reason],
         unmatchedModules |-> self_unmatched_modules[r],
         matchedDetails |-> self_matched_results[r]]

\* Lines 354-407: the result workbook is written, the summary is stored and
\* the file is sent.  Writing the workbook changes nothing the model holds.
StoreResult(r) ==
    /\ pc[r] = "sorted"
    /\ IF matched_results[r] = <<>>
       THEN Done(r, 500, ErrSortFailed) /\ UNCHANGED process_result
       ELSE /\ process_result' = <<Summary(r)>>
            /\ Done(r, 200, "")
    /\ UNCHANGED <<upload, df, attrs, locals, prev>>

Init ==
    /\ upload \in [Requests -> Uploads]
    /\ pc = [r \in Requests |-> "start"]
    /\ df = [r \in Requests |-> NoTable]
    /\ modules = Fresh
    /\ requirements = Fresh
    /\ unmatched_items = Fresh
    /\ self_matched_results = Fresh
    /\ self_unmatched_modules = Fresh
    /\ self_unmatched_requirements = Fresh
    /\ matched_results = Fresh
    /\ unmatched_modules = Fresh
    /\ matched_requirements_list = Fresh
    /\ available_requirements = Fresh
    /\ idx = [r \in Requests |-> 0]
    /\ response = [r \in Requests |-> NoResponse]
    /\ process_result = <<>>
    /\ prev = <<>>

Next ==
    \E r \in Requests :
        \/ Validate(r)
        \/ LoadExcel(r)
        \/ ExtractAndCheck(r)
        \/ SortStart(r)
        \/ SortStep(r)
        \/ SortFinish(r)
        \/ StoreResult(r)

\* The service: every request runs the handler, their steps interleaved.
Spec == Init /\ [][Next]_vars

\* ------------------------------------------------- one sorter, called twice
\* extract_modules_and_requirements(df) called on a sorter.
CallExtract(r) ==
    /\ pc[r] = "new"
    /\ modules' = [modules EXCEPT ![r] = ExtractModules(df[r])]
    /\ requirements' = [requirements EXCEPT ![r] = ExtractRequirements(df[r])]
    /\ pc' = [pc EXCEPT ![r] = "sort"]
    /\ UNCHANGED <<upload, df, unmatched_items, self_matched_results,
                   self_unmatched_modules, self_unmatched_requirements, locals,
                   response, process_result, prev>>

\* The caller keeps what the run returned and what the sorter held, and calls
\* sort_requirements again.
CallSortAgain(r) ==
    /\ pc[r] = "sorted"
    /\ prev' = <<[results |-> matched_results[r],
                  modules |-> modules[r],
                  requirements |-> requirements[r]]>>
    /\ pc' = [pc EXCEPT ![r] = "sort"]
    /\ UNCHANGED <<upload, df, attrs, locals, response, process_result>>

InitSorter ==
    /\ upload = [r \in Requests |-> Corrupt]
    /\ pc = [r \in Requests |-> IF r = 1 THEN "new" ELSE "done"]
    /\ \E ncols \in ColumnCounts, rows \in 0..MaxRows :
           \E a \in Column(IF ncols > 0 THEN rows ELSE 0),
              d \in Column(IF ncols > 3 THEN rows ELSE 0) :
               df = [r \in Requests |->
                        IF r = 1 THEN Table(ncols, Len(a), a, d) ELSE NoTable]
    /\ modules = Fresh
    /\ requirements = Fresh
    /\ unmatched_items = Fresh
    /\ self_matched_results = Fresh
    /\ self_unmatched_modules = Fresh
    /\ self_unmatched_requirements = Fresh
    /\ matched_results = Fresh
    /\ unmatched_modules = Fresh
    /\ matched_requirements_list = Fresh
    /\ available_requirements = Fresh
    /\ idx = [r \in Requests |-> 0]
    /\ response = [r \in Requests |-> NoResponse]
    /\ process_result = <<>>
    /\ prev = <<>>

NextSorter ==
    \/ CallExtract(1)
    \/ SortStart(1)
    \/ SortStep(1)
    \/ SortFinish(1)
    \/ CallSortAgain(1)

\* One ExcelSorter: a table is extracted, then sort_requirements runs, and
\* runs again, on the same sorter.
SpecSorter == InitSorter /\ [][NextSorter]_vars

\* ============================================================ properties
\* The texts of the MATCHED records of a record sequence.
MatchedTexts(results) ==
    { results[i].matched_requirement :
          i \in { k \in 1..Len(results) : results[k].match_status = MATCHED } }

HasDuplicate(s) == \E i, j \in 1..Len(s) : i < j /\ s[i] = s[j]

\* C1: in every run of sort_requirements, no two MATCHED records carry the
\* same matched_requirement text.
C1_MatchedDistinct ==
    \A r \in Requests :
        \A i, j \in 1..Len(matched_results[r]) :
            ( /\ i # j
              /\ matched_results[r][i].match_status = MATCHED
              /\ matched_results[r][j].match_status = MATCHED )
            => matched_results[r][i].matched_requirement
                   # matched_results[r][j].matched_requirement

\* A finished run in which a module text that is a requirement occurs twice.
C1_Witness ==
    /\ pc[1] = "sorted"
    /\ \E i, j \in 1..Len(modules[1]) :
           /\ i < j
           /\ modules[1][i] = modules[1][j]
           /\ modules[1][i] \in Range(requirements[1])
    /\ CountMatched(matched_results[1]) >= 1

\* C2: after a run, record i is MATCHED with matched_requirement = modules[i]
\* exactly when modules[i] is an entry of requirements and no earlier module
\* has the same text; otherwise it is UNMATCHED with an empty text.
C2_FirstOccurrenceWins ==
    \A r \in Requests :
        pc[r] = "sorted" =>
            /\ Len(matched_results[r]) = Len(modules[r])
            /\ \A i \in 1..Len(modules[r]) :
                   LET rec == matched_results[r][i]
                       wins == /\ modules[r][i] \in Range(requirements[r])
                               /\ \A j \in 1..(i - 1) : modules[r][j] # modules[r][i]
                   IN  IF wins
                       THEN /\ rec.match_status = MATCHED
                            /\ rec.matched_requirement = modules[r][i]
                       ELSE /\ rec.match_status = UNMATCHED
                            /\ rec.matched_requirement = <<>>

\* A finished run with a module that differs from a requirement by case only,
\* next to a module that matched.
C2_Witness ==
    /\ pc[1] = "sorted"
    /\ \E i \in 1..Len(modules[1]) :
           /\ modules[1][i] \notin Range(requirements[1])
           /\ \E q \in Range(requirements[1]) : Lower(q) = Lower(modules[1][i])
    /\ CountMatched(matched_results[1]) >= 1

\* C3: after a run, the reported unmatched requirements and the matched
\* texts are disjoint and together are exactly the requirements.
C3_LeftoverPartition ==
    \A r \in Requests :
        pc[r] = "sorted" =>
            LET leftover == Range(self_unmatched_requirements[r])
                matched == MatchedTexts(matched_results[r])
            IN  /\ leftover \cap matched = {}
                /\ leftover \cup matched = Range(requirements[r])

\* A finished run with a matched requirement and a leftover one.
C3_Witness ==
    /\ pc[1] = "sorted"
    /\ MatchedTexts(matched_results[1]) # {}
    /\ self_unmatched_requirements[1] # <<>>

\* C4: a run returns one record per module occurrence, in module order:
\* as many records as modules, record i carrying the text of modules[i].
C4_OneRecordPerModule ==
    \A r \in Requests :
        pc[r] = "sorted" =>
            /\ Len(matched_results[r]) = Len(modules[r])
            /\ \A i \in 1..Len(modules[r]) :
                   matched_results[r][i].module_value = modules[r][i]

\* A finished run over two modules or more, one matched and one not.
C4_Witness ==
    /\ pc[1] = "sorted"
    /\ Len(modules[1]) >= 2
    /\ \E i, j \in 1..Len(matched_results[1]) :
           /\ matched_results[1][i].match_status = MATCHED
           /\ matched_results[1][j].match_status = UNMATCHED

\* The filter of the claim: present, non-empty after trimming, not "nan".
Usable(val) == val # NaN /\ Strip(val.s) \notin {<<>>, <<"n", "a", "n">>}

TrimmedUsable(col) ==
    LET kept == SelectSeq(col, Usable)
    IN  [k \in 1..Len(kept) |-> Strip(kept[k].s)]

\* s with every value kept at its first occurrence only.
FirstOccurrences(s) ==
    LET firsts == { i \in 1..Len(s) : \A j \in 1..(i - 1) : s[j] # s[i] }
    IN  [k \in 1..Cardinality(firsts) |->
            s[CHOOSE i \in firsts : Cardinality({ j \in firsts : j <= i }) = k]]

\* C5: for a table of at least 4 columns, modules is the trimmed usable
\* values of column A in row order, duplicates kept, and requirements is the
\* trimmed usable values of column D, each at its first occurrence only.
C5_Extraction ==
    \A r \in Requests :
        (pc[r] \in {"sort", "loop", "sorted"} /\ df[r].ncols >= 4) =>
            /\ modules[r] = TrimmedUsable(df[r].A)
            /\ requirements[r] = FirstOccurrences(TrimmedUsable(df[r].D))
            /\ ~HasDuplicate(requirements[r])

\* An extracted table whose column A holds a padded value and one that is
\* dropped, and whose column D repeats a usable value.
C5_Witness ==
    /\ pc[1] = "sort"
    /\ df[1].ncols >= 4
    /\ \E k \in 1..Len(df[1].A) :
           Usable(df[1].A[k]) /\ Strip(df[1].A[k].s) # df[1].A[k].s
    /\ Len(modules[1]) < Len(df[1].A)
    /\ HasDuplicate(TrimmedUsable(df[1].D))
    /\ requirements[1] # <<>>

\* The causes of a validation failure that apply to a table, as messages.
Causes(t) ==
    (IF t.ncols < 4 THEN {ErrColumns} ELSE {})
    \cup (IF TrimmedUsable(t.A) = <<>> THEN {ErrNoModules} ELSE {})
    \cup (IF t.ncols < 4 \/ TrimmedUsable(t.D) = <<>> THEN {ErrNoRequirements} ELSE {})

\* C6: a request whose table has fewer than 4 columns, or no module in
\* column A, or no requirement in column D, ends in a 400 whose message
\* names such a cause, and the matcher never ran for it.
C6_ValidationFailure ==
    \A r \in Requests :
        ( /\ pc[r] = "done"
          /\ upload[r].file = "ok"
          /\ upload[r].readable
          /\ Causes(upload[r].df) # {} )
        => /\ response[r].status = 400
           /\ response[r].error \in Causes(upload[r].df)
           /\ idx[r] = 0
           /\ matched_results[r] = <<>>

\* What a run of sort_requirements alone has after its first n modules.
RECURSIVE AloneAfter(_, _, _)
AloneAfter(mods, reqs, n) ==
    IF n = 0 THEN [records |-> <<>>, pool |-> reqs]
    ELSE LET before == AloneAfter(mods, reqs, n - 1)
             m == find_exact_match(mods[n], before.pool)
         IN  IF m.match_index # 0
             THEN [records |-> Append(before.records,
                                      MatchedRecord(mods[n], m.matched_requirement)),
                   pool |-> Pop(before.pool, m.match_index)]
             ELSE [records |-> Append(before.records, UnmatchedRecord(mods[n])),
                   pool |-> before.pool]

InMatcher(r) ==
    \/ pc[r] \in {"loop", "sorted"}
    \/ pc[r] = "done" /\ response[r].status = 200

\* C7: with the requests' steps interleaved in any order, every request has,
\* at each point of its matching and at its end, the records and the leftover
\* that a run alone on its own upload's modules and requirements has.
C7_RequestsIsolated ==
    \A r \in Requests :
        InMatcher(r) =>
            LET alone == AloneAfter(ExtractModules(upload[r].df),
                                    ExtractRequirements(upload[r].df),
                                    idx[r] - 1)
            IN  /\ modules[r] = ExtractModules(upload[r].df)
                /\ requirements[r] = ExtractRequirements(upload[r].df)
                /\ matched_results[r] = alone.records
                /\ pc[r] # "loop" =>
                       Range(self_unmatched_requirements[r]) = Range(alone.pool)

\* Two requests inside their matching loops at once, each with a requirement
\* already taken from its pool.
C7_Witness ==
    \E r, q \in Requests :
        /\ r # q
        /\ pc[r] = "loop" /\ pc[q] = "loop"
        /\ matched_requirements_list[r] # <<>>
        /\ matched_requirements_list[q] # <<>>
        /\ idx[r] <= Len(modules[r])
        /\ idx[q] <= Len(modules[q])

\* C8: a second run of sort_requirements on the same sorter finds modules
\* and requirements as the first left them, keeps them so at every step, and
\* returns the records of the first.
C8_RerunSameRecords ==
    \A r \in Requests :
        (prev # <<>> /\ pc[r] \in {"sort", "loop", "sorted"}) =>
            /\ modules[r] = prev[1].modules
            /\ requirements[r] = prev[1].requirements
            /\ pc[r] = "sorted" => matched_results[r] = prev[1].results

\* A second run finished, in which the pool lost an entry.
C8_Witness ==
    /\ pc[1] = "sorted"
    /\ prev # <<>>
    /\ Len(available_requirements[1]) < Len(requirements[1])
    /\ CountMatched(matched_results[1]) >= 1

\* C9: throughout the loop the pool is the requirements not matched by a
\* module processed so far, in their original order, and after the loop its
\* entries are the reported unmatched requirements.
C9_PoolIsUnmatchedRest ==
    \A r \in Requests :
        pc[r] \in {"loop", "sorted"} =>
            LET taken == MatchedTexts(matched_results[r])
                NotTaken(q) == q \notin taken
            IN  /\ available_requirements[r] = SelectSeq(requirements[r], NotTaken)
                /\ pc[r] = "sorted" =>
                       Range(available_requirements[r])
                           = Range(self_unmatched_requirements[r])

\* Inside the loop, the pool has lost its first entry and kept a later one.
C9_Witness ==
    /\ pc[1] = "loop"
    /\ idx[1] <= Len(modules[1])
    /\ available_requirements[1] # <<>>
    /\ Len(requirements[1]) >= 2
    /\ requirements[1][1] \notin Range(available_requirements[1])

\* C10: in the stored summary, matchedRequirements is the number of MATCHED
\* records of the report, lies between 0 and totalRequirements, and leaves
\* totalRequirements - matchedRequirements leftover requirements.
C10_SummaryMatchedCount ==
    process_result # <<>> =>
        LET summary == process_result[1]
        IN  /\ summary.matchedRequirements = CountMatched(summary.matchedDetails)
            /\ summary.matchedRequirements >= 0
            /\ summary.matchedRequirements <= summary.totalRequirements
            /\ summary.totalRequirements - summary.matchedRequirements
                   = Len(summary.unmatchedRequirements)

====
